---- MODULE Spec2Model ----
(***************************************************************************)
(* minilc3: an LC-3 virtual machine (src/main.c).                          *)
(*                                                                         *)
(* The state is the machine of main.c: the 65,536-word memory, the eight   *)
(* registers, pc, cc, the stdout_on_new_line flag, what was written to     *)
(* standard output and how much of it stdio still holds in its buffer, the *)
(* terminal mode and where the process is (loading, running, blocked in    *)
(* getchar, ended).  One action per opcode and per trap vector, each       *)
(* translated from its case of the switch in main().                       *)
(***************************************************************************)
EXTENDS Integers, Sequences, FiniteSets, TLC

\* ------------------------------------------------------------ constants

\* #define MEMORY_SIZE 0x10000L
MEMORY_SIZE == 65536

\* enum Opcode
OP_BR == 0
OP_ADD == 1
OP_LD == 2
OP_ST == 3
OP_JSR_JSRR == 4
OP_AND == 5
OP_LDR == 6
OP_STR == 7
OP_RTI == 8
OP_NOT == 9
OP_LDI == 10
OP_STI == 11
OP_JMP_RET == 12
OP_RESERVED == 13
OP_LEA == 14
OP_TRAP == 15

\* enum TrapVect
TRAP_GETC == 32
TRAP_OUT == 33
TRAP_PUTS == 34
TRAP_IN == 35
TRAP_PUTSP == 36
TRAP_HALT == 37

\* enum Error
ERR_OK == 0
ERR_CLI == 1
ERR_FILE == 2
ERR_INSTRUCTION == 3
ERR_ASSERT == 4

\* getchar()'s end-of-file value
EOF == -1

\* ------------------------------------------------------- integer widths

\* Conversion to Word (uint16_t): reduction modulo 2^16.
ToWord(i) == i % 65536

\* Conversion to SignedWord (int16_t): the value of the low 16 bits read as
\* two's complement.
ToSigned(i) == IF (i % 65536) >= 32768 THEN (i % 65536) - 65536 ELSE i % 65536

\* Conversion of getchar()'s int to char, then to Word.  Whether char is
\* signed is the build's choice (signed: 0x80..0xff and EOF become
\* 0xff80..0xffff; unsigned: they stay 0x0080..0x00ff).
CharToWord(c, char_signed) ==
    LET byte == c % 256
    IN  IF char_signed /\ byte >= 128 THEN ToWord(byte - 256) ELSE byte

Pow2(n) == 2 ^ n

\* x ^ (1 << k) for 0 <= x: flip bit k.
XorBit(x, k) ==
    IF (x \div Pow2(k)) % 2 = 1 THEN x - Pow2(k) ELSE x + Pow2(k)

\* Bitwise and of two Words, bit by bit (nothing is left once either
\* operand has run out of set bits).
RECURSIVE AndBits(_, _, _)
AndBits(a, b, n) ==
    IF n = 0 \/ a = 0 \/ b = 0 THEN 0
    ELSE ((a % 2) * (b % 2)) + 2 * AndBits(a \div 2, b \div 2, n - 1)

BitAnd(a, b) == AndBits(a, b, 16)

\* ~x converted to Word.
BitNot(a) == 65535 - a

\* --------------------------------------------------------- pure helpers

\* Word swap_endian(const Word word)
swap_endian(word) == ToWord(((word * 256) % 65536) + (word \div 256))

\* set_cc with the sign test lost: a negative result counts as positive.
set_cc_no_negative(result) == IF result = 0 THEN 2 ELSE 1

\* void set_cc(const SignedWord result): the value cc is given.
set_cc(result) ==
    IF result < 0 THEN 4
    ELSE IF result = 0 THEN 2
    ELSE 1

\* SignedWord sign_extend(const Word value, const uint8_t bits)
sign_extend(value, nbits) ==
    LET sign_bit == Pow2(nbits - 1)
    IN  ToSigned(ToSigned(XorBit(value, nbits - 1)) - ToSigned(sign_bit))

\* bits with a mask one bit short: (1 << (highest - lowest)) - 1.
bits_mask_one_short(instruction, highest, lowest) ==
    LET mask == Pow2(highest - lowest) - 1
    IN  BitAnd(instruction \div Pow2(lowest), mask)

\* Word bits(const Word instruction, const uint8_t highest, const uint8_t lowest)
bits(instruction, highest, lowest) ==
    LET mask == Pow2(highest - lowest + 1) - 1
    IN  BitAnd(instruction \div Pow2(lowest), mask)

\* SignedWord bits_sext(instruction, highest, lowest)
bits_sext(instruction, highest, lowest) ==
    sign_extend(bits(instruction, highest, lowest), highest - lowest + 1)

bits_reg_a(instruction) == bits(instruction, 11, 9)

bits_reg_b(instruction) == bits(instruction, 8, 6)

bits_reg_c(instruction) == bits(instruction, 2, 0)

bits_imm_5(instruction) == bits_sext(instruction, 4, 0)

bits_offset_6(instruction) == bits_sext(instruction, 5, 0)

bits_pc_offset_9(instruction) == bits_sext(instruction, 8, 0)

bits_pc_offset_11(instruction) == bits_sext(instruction, 10, 0)

\* ---------------------------------------------------------------- state

VARIABLES
    file,                \* the bytes of the image file named on the command line
    memory,              \* static Word memory[MEMORY_SIZE]: the nonzero words
    registers,           \* static Word registers[8]
    pc,                  \* static Word pc
    cc,                  \* static uint8_t cc
    stdout_on_new_line,  \* static bool stdout_on_new_line
    out,                 \* the bytes written to standard output so far
    stdout_mode,         \* how stdio buffers stdout: "unset" before its first write
    buffered,            \* how many of the last bytes of out stdio still holds
    tty_raw,             \* the terminal is in raw (non-canonical, no echo) mode
    status,              \* where the process is
    exit_code,           \* main's return value, NoExit until it returns
    steps                \* instructions fetched so far

vars ==
    <<file, memory, registers, pc, cc, stdout_on_new_line, out, stdout_mode,
      buffered, tty_raw, status, exit_code, steps>>

NoExit == -1

\* The word at an address: memory is zero-initialised, and the variable
\* keeps only the words that are not zero.
Mem(a) == IF a \in DOMAIN memory THEN memory[a] ELSE 0

\* memory[a] = v
Store(m, a, v) ==
    IF v = 0
    THEN [x \in (DOMAIN m) \ {a} |-> m[x]]
    ELSE [x \in (DOMAIN m) \cup {a} |-> IF x = a THEN v ELSE m[x]]

\* An index is inside memory[MEMORY_SIZE].
InBounds(index) == index >= 0 /\ index < MEMORY_SIZE

\* --------------------------------------------------------------- output

console == [out |-> out, nl |-> stdout_on_new_line]

\* void print_char(const char ch)
print_char(st, ch) == [out |-> Append(st.out, ch % 256), nl |-> (ch % 256) = 10]

\* print_on_new_line that never writes the newline.
print_on_new_line_never(st) == [out |-> st.out, nl |-> TRUE]

\* void print_on_new_line()
print_on_new_line(st) ==
    IF st.nl THEN st ELSE [out |-> Append(st.out, 10), nl |-> TRUE]

\* printf("Input> ")
Prompt == <<73, 110, 112, 117, 116, 62, 32>>

\* The bytes a step adds to standard output when it leaves the console st.
Written(st) == SubSeq(st.out, Len(out) + 1, Len(st.out))

\* stdio chooses the buffering of stdout at the first write to it: line
\* buffered when stdout is a terminal, fully buffered when it is not.
ModesAfter(s) ==
    IF s = <<>> \/ stdout_mode # "unset" THEN {stdout_mode} ELSE {"line", "full"}

\* How many bytes stdio holds after printf has written s with n bytes held
\* before: a line-buffered stream is transmitted at each newline.  (The
\* program never writes enough to fill the buffer.)
RECURSIVE Pending(_, _, _)
Pending(mode, n, s) ==
    IF s = <<>> THEN n
    ELSE IF mode = "line" /\ Head(s) = 10 THEN Pending(mode, 0, Tail(s))
    ELSE Pending(mode, n + 1, Tail(s))

\* How many bytes stdio holds after getchar(): a read may transmit what a
\* line-buffered stdout holds, and leaves a fully buffered one alone.
AfterRead(mode, n) == IF mode = "line" THEN {0, n} ELSE {n}

\* The step leaves the console st by its printf calls, followed (flush) or
\* not by fflush(stdout) or by the return from main, which flushes too.
WriteStdout(st, flush) ==
    /\ out' = st.out
    /\ stdout_on_new_line' = st.nl
    /\ \E mode \in ModesAfter(Written(st)) :
           /\ stdout_mode' = mode
           /\ buffered' = IF flush THEN 0 ELSE Pending(mode, buffered, Written(st))

\* --------------------------------------------------------------- inputs

\* Longest payload of the enumerated image files, in words.
MaxLen == 2

\* Instructions one run may fetch.
MaxSteps == 4

\* An instruction word from its fields: opcode, bits 11-9, bits 8-6, bits 5-0.
Enc(op, a, b, low) == op * 4096 + a * 512 + b * 64 + low

\* A PC-relative instruction word: opcode, bits 11-9, bits 8-0.
EncPc(op, a, off9) == op * 4096 + a * 512 + (off9 % 512)

\* The instruction words the enumerated images are made of: every opcode, in
\* its valid forms and in each form its validation rejects, and words that
\* serve as data.
InstrWords ==
    {   0,                              \* NOP (BR with every field zero)
        EncPc(OP_BR, 0, 1),             \* BR, no condition, offset 1
        EncPc(OP_BR, 7, 1),             \* BRnzp +1
        EncPc(OP_BR, 2, -2),            \* BRz -2
        Enc(OP_ADD, 1, 1, 32 + 1),      \* ADD R1,R1,#1
        Enc(OP_ADD, 1, 1, 32 + 31),     \* ADD R1,R1,#-1
        Enc(OP_ADD, 2, 1, 1),           \* ADD R2,R1,R1
        Enc(OP_ADD, 2, 1, 8 + 1),       \* ADD R2,R1,R1 with bit 3 set
        Enc(OP_AND, 1, 1, 2),           \* AND R1,R1,R2
        Enc(OP_AND, 2, 1, 32 + 31),     \* AND R2,R1,#-1
        Enc(OP_AND, 1, 1, 16),          \* AND, register mode, bit 4 set
        Enc(OP_NOT, 1, 1, 63),          \* NOT R1,R1
        Enc(OP_NOT, 1, 1, 62),          \* NOT, low bits not all 1
        EncPc(OP_LEA, 1, -2),           \* LEA R1,#-2
        EncPc(OP_LEA, 0, 1),            \* LEA R0,#1
        EncPc(OP_LD, 1, 0),             \* LD R1,#0
        EncPc(OP_LD, 1, 1),             \* LD R1,#1
        EncPc(OP_LDI, 1, 0),            \* LDI R1,#0
        Enc(OP_LDR, 2, 1, 0),           \* LDR R2,R1,#0
        Enc(OP_LDR, 2, 1, 63),          \* LDR R2,R1,#-1
        EncPc(OP_ST, 1, 1),             \* ST R1,#1
        EncPc(OP_STI, 1, 0),            \* STI R1,#0
        Enc(OP_STR, 1, 2, 1),           \* STR R1,R2,#1
        Enc(OP_STR, 1, 1, 63),          \* STR R1,R1,#-1
        Enc(OP_JMP_RET, 0, 1, 0),       \* JMP R1
        Enc(OP_JMP_RET, 0, 7, 0),       \* RET
        Enc(OP_JMP_RET, 0, 1, 1),       \* JMP, bit 0 set
        Enc(OP_JMP_RET, 1, 1, 0),       \* JMP, bit 9 set
        EncPc(OP_JSR_JSRR, 4, 1),       \* JSR #1
        EncPc(OP_JSR_JSRR, 7, -1),      \* JSR #-1
        Enc(OP_JSR_JSRR, 0, 1, 0),      \* JSRR R1
        Enc(OP_JSR_JSRR, 0, 7, 0),      \* JSRR R7
        Enc(OP_JSR_JSRR, 0, 1, 1),      \* JSRR, bit 0 set
        Enc(OP_JSR_JSRR, 1, 1, 0),      \* JSRR, bit 9 set
        Enc(OP_TRAP, 0, 0, TRAP_GETC),
        Enc(OP_TRAP, 0, 0, TRAP_OUT),
        Enc(OP_TRAP, 0, 0, TRAP_PUTS),
        Enc(OP_TRAP, 0, 0, TRAP_IN),
        Enc(OP_TRAP, 0, 0, TRAP_PUTSP),
        Enc(OP_TRAP, 0, 0, TRAP_HALT),
        Enc(OP_TRAP, 0, 2, 25),         \* TRAP x99
        Enc(OP_TRAP, 0, 4, TRAP_HALT),  \* TRAP x25 with bit 8 set
        Enc(OP_RTI, 0, 0, 0),           \* RTI; as data, 0x8000
        Enc(OP_RESERVED, 0, 0, 0),      \* the reserved opcode
        65535                           \* as data, -1
    }

\* The origin of the enumerated images of several words.
UsualOrigin == 3 * 4096

\* The origins of the enumerated images of one word: the usual one, the
\* lowest address, and the highest one an image can be loaded at.
Origins == {UsualOrigin, 0, 65534}

\* All payloads of 1..n words over a set of words.
RECURSIVE Payloads(_, _)
Payloads(words, n) ==
    IF n = 0 THEN {}
    ELSE LET shorter == Payloads(words, n - 1)
         IN  {<<w>> : w \in words} \cup shorter
             \cup {Append(p, w) : p \in {q \in shorter : Len(q) = n - 1}, w \in words}

\* A word as the file holds it: high byte first.
WordBytes(w) == <<w \div 256, w % 256>>

RECURSIVE PayloadBytes(_)
PayloadBytes(ws) ==
    IF ws = <<>> THEN <<>> ELSE WordBytes(Head(ws)) \o PayloadBytes(Tail(ws))

\* The image file with this origin word and these payload words.
Image(origin, payload) == WordBytes(origin) \o PayloadBytes(payload)

\* origin 0x3000: LEA R0,label; PUTS; HALT; label: 'h', 'i', 0
HiImage ==
    Image(UsualOrigin, <<EncPc(OP_LEA, 0, 2), Enc(OP_TRAP, 0, 0, TRAP_PUTS),
                   Enc(OP_TRAP, 0, 0, TRAP_HALT), 104, 105, 0>>)

\* Image files that are cut short: empty, half an origin word, an origin and
\* nothing else, an origin and half a word.
ShortFiles == {<<>>, <<48>>, <<48, 0>>, <<48, 0, 240>>}

\* LEA R0,label; PUTSP; HALT; label: 'h' in the low byte and 'i' in the high
\* byte, then 'j' alone, then 0
PutspImage ==
    Image(UsualOrigin, <<EncPc(OP_LEA, 0, 2), Enc(OP_TRAP, 0, 0, TRAP_PUTSP),
                         Enc(OP_TRAP, 0, 0, TRAP_HALT), 105 * 256 + 104, 106, 0>>)

\* JSR sub; HALT; sub: RET
JsrRetImage ==
    Image(UsualOrigin, <<EncPc(OP_JSR_JSRR, 4, 1), Enc(OP_TRAP, 0, 0, TRAP_HALT),
                         Enc(OP_JMP_RET, 0, 7, 0)>>)

\* origin 0x3000 and the single word 0xF025: HALT alone
HaltImage == Image(UsualOrigin, <<Enc(OP_TRAP, 0, 0, TRAP_HALT)>>)

\* Image files around the largest payload: at origin 0xFFFE, where two words
\* are left, payloads of two words (an exact fit), of two words and a stray
\* byte, and of three words; at origin 0xFFFF a payload of one word (an
\* exact fit); and a fitting payload followed by a stray byte.
BoundaryFiles ==
    LET halt == Enc(OP_TRAP, 0, 0, TRAP_HALT)
    IN  {   Image(65534, <<halt, halt>>),
            Image(65534, <<halt, halt>>) \o <<0>>,
            Image(65534, <<halt, halt, halt>>),
            Image(65535, <<halt>>),
            Image(UsualOrigin, <<halt>>) \o <<0>>
        }

\* origin 0: LEA R0,#-2 (R0 = 0xFFFF); LD R1,data; STR R1,R0,#0; PUTS;
\* data: 'A' under a high byte that is not zero.  The string runs from
\* 0xFFFF over addresses 0 and 1 and ends at address 2, the STR word, whose
\* low byte is zero.
PutsWrapImage ==
    Image(0, <<EncPc(OP_LEA, 0, -2), EncPc(OP_LD, 1, 2), Enc(OP_STR, 1, 0, 0),
               Enc(OP_TRAP, 0, 0, TRAP_PUTS), 256 + 65>>)

\* origin 0: OUT (a NUL byte); ADD R1,R1,#1; ST R1,#-47 (index -44, below
\* the array); IN; HALT
FlagImage ==
    Image(0, <<Enc(OP_TRAP, 0, 0, TRAP_OUT), Enc(OP_ADD, 1, 1, 32 + 1),
               EncPc(OP_ST, 1, -47), Enc(OP_TRAP, 0, 0, TRAP_IN),
               Enc(OP_TRAP, 0, 0, TRAP_HALT)>>)

\* origin 0xFFF0: LEA R0,#0; ADD R1,R1,#7; STI R1,#13 (index 0x10000, above
\* the array); LD R0,#-3; OUT; HALT
StiImage ==
    Image(65520, <<EncPc(OP_LEA, 0, 0), Enc(OP_ADD, 1, 1, 32 + 7),
                   EncPc(OP_STI, 1, 13), EncPc(OP_LD, 0, -3),
                   Enc(OP_TRAP, 0, 0, TRAP_OUT), Enc(OP_TRAP, 0, 0, TRAP_HALT)>>)

\* Operand values at the edges of the signed range.
DataWords == {0, 1, 32767, 32768, 65535}

\* The instructions run on loaded operands: R1 and R2 are sources, R3 the
\* destination.
AluWords ==
    {   Enc(OP_ADD, 3, 1, 2),           \* ADD R3,R1,R2
        Enc(OP_ADD, 3, 1, 32 + 1),      \* ADD R3,R1,#1
        Enc(OP_ADD, 3, 1, 32 + 16),     \* ADD R3,R1,#-16
        Enc(OP_AND, 3, 1, 2),           \* AND R3,R1,R2
        Enc(OP_AND, 3, 1, 32 + 31),     \* AND R3,R1,#-1
        Enc(OP_NOT, 3, 1, 63),          \* NOT R3,R1
        Enc(OP_ADD, 3, 1, 8 + 2),       \* ADD R3,R1,R2 with bit 3 set
        Enc(OP_ADD, 3, 1, 16 + 2),      \* ADD R3,R1,R2 with bit 4 set
        Enc(OP_AND, 3, 1, 24 + 2),      \* AND R3,R1,R2 with bits 4-3 set
        Enc(OP_LDR, 3, 1, 1),           \* LDR R3,R1,#1
        Enc(OP_STR, 2, 1, 1),           \* STR R2,R1,#1
        Enc(OP_JSR_JSRR, 0, 1, 0),      \* JSRR R1
        Enc(OP_JMP_RET, 0, 2, 0)        \* JMP R2
    }

\* LD R1,a; LD R2,b; an instruction on them; HALT; a: d1; b: d2
AluImage(w, d1, d2) ==
    Image(UsualOrigin, <<EncPc(OP_LD, 1, 3), EncPc(OP_LD, 2, 3), w,
                         Enc(OP_TRAP, 0, 0, TRAP_HALT), d1, d2>>)

\* Words run alone at the usual origin: every trap vector, TRAP with each
\* padding, NOT with each low six bits, JMP and JSR/JSRR with each value of
\* bits 11-9 and stray low bits, BR without condition at several offsets,
\* RTI and the reserved opcode with other bits set.
EdgeWords ==
    {Enc(OP_TRAP, 0, 0, 0) + v : v \in 0..255}
        \cup {Enc(OP_TRAP, 0, 0, TRAP_HALT) + 256 * p : p \in 1..15}
        \cup {Enc(OP_NOT, 1, 1, low) : low \in 0..63}
        \cup {Enc(OP_JMP_RET, a, 1, low) : a \in 0..7, low \in {0, 1, 32}}
        \cup {Enc(OP_JSR_JSRR, a, 1, low) : a \in 0..7, low \in {0, 1, 32}}
        \cup {EncPc(OP_BR, 0, off) : off \in {0, 1, 2, 255, 256, 511}}
        \cup {Enc(op, 0, 0, 0) + x : op \in {OP_RTI, OP_RESERVED}, x \in {0, 1, 2048, 4095}}

Scenarios ==
    {HiImage, PutspImage, JsrRetImage, HaltImage, PutsWrapImage, FlagImage,
     StiImage}
        \cup BoundaryFiles
        \cup {Image(UsualOrigin, <<w>>) : w \in EdgeWords}
        \cup {AluImage(w, d1, d2) : w \in AluWords, d1 \in DataWords, d2 \in DataWords}

Files ==
    {Image(UsualOrigin, p) : p \in Payloads(InstrWords, MaxLen)}
        \cup {Image(o, <<w>>) : o \in Origins, w \in InstrWords}
        \cup Scenarios \cup ShortFiles

\* Every 16-bit word, as the only word of an image at the usual origin.
AllWordFiles == {Image(UsualOrigin, <<w>>) : w \in 0..65535}

\* What getchar() can return: a line feed, a letter, EOF.
InputChars == {10, 97, EOF}

\* ------------------------------------------------------------ the loader

\* The i-th two-byte item of the file as fread stores it in a Word of the
\* (little-endian) host, items counted from 0.
FileItem(i) == file[2 * i + 1] + 256 * file[2 * i + 2]

\* The complete two-byte items the file holds.
FileItems == Len(file) \div 2

\* The process at the start of main(), with one of these files as argv[1]:
\* the statics as their initialisers leave them.
InitWith(files) ==
    /\ file \in files
    /\ memory = <<>>
    /\ registers = [r \in 0..7 |-> 0]
    /\ pc = 0
    /\ cc = 0
    /\ stdout_on_new_line = TRUE
    /\ out = <<>>
    /\ stdout_mode = "unset"
    /\ buffered = 0
    /\ tty_raw = FALSE
    /\ status = "loading"
    /\ exit_code = NoExit
    /\ steps = 0

Init == InitWith(Files)

Exit(code) ==
    /\ status' = "exited"
    /\ exit_code' = code

\* main(), from the first fread to the reset of the registers.
Load ==
    /\ status = "loading"
    /\ IF FileItems < 1
       THEN \* "File is too short."
            /\ Exit(ERR_FILE)
            /\ UNCHANGED <<file, memory, registers, pc, cc, stdout_on_new_line,
                           out, stdout_mode, buffered, tty_raw, steps>>
       ELSE LET origin == swap_endian(FileItem(0))
                room == MEMORY_SIZE - origin
                left == FileItems - 1
                words_read == IF left < room THEN left ELSE room
                \* fread stops at the end of the file only when the file
                \* holds fewer bytes than it was asked for
                at_eof == Len(file) - 2 < 2 * room
                loaded == {origin + i : i \in 0..(words_read - 1)}
                \* what fread left in memory, before the bytes are swapped
                raw == [a \in {x \in loaded : FileItem(1 + x - origin) # 0}
                           |-> FileItem(1 + a - origin)]
                image == [a \in DOMAIN raw |-> swap_endian(raw[a])]
            IN  IF ~at_eof \/ words_read = 0
                THEN \* "File is too long." / "File is too short."
                     /\ Exit(ERR_FILE)
                     /\ memory' = raw
                     /\ UNCHANGED <<file, registers, pc, cc, stdout_on_new_line,
                                    out, stdout_mode, buffered, tty_raw, steps>>
                ELSE /\ memory' = image
                     /\ pc' = origin
                     /\ cc' = 2
                     /\ registers' = [r \in 0..7 |-> 0]
                     /\ status' = "running"
                     /\ UNCHANGED <<file, stdout_on_new_line, out, stdout_mode,
                                    buffered, tty_raw, exit_code, steps>>

\* ------------------------------------------------- the execution loop

\* const Word instruction = memory[pc++]
instruction == Mem(pc)

\* pc after the fetch
next_pc == ToWord(pc + 1)

\* const enum Opcode opcode = (enum Opcode)bits(instruction, 15, 12)
opcode == bits(instruction, 15, 12)

\* The loop is at its top and the instruction it fetches has this opcode.
Fetch(op) ==
    /\ status = "running"
    /\ steps < MaxSteps
    /\ opcode = op

\* The instruction ends at its break (or continue): the loop goes on.
Continue(r, m, p, c) ==
    /\ registers' = r
    /\ memory' = m
    /\ pc' = p
    /\ cc' = c
    /\ steps' = steps + 1
    /\ UNCHANGED <<file, stdout_on_new_line, out, stdout_mode, buffered,
                   tty_raw, status, exit_code>>

\* return ERR_INSTRUCTION, with the registers as the instruction left them;
\* the return from main flushes stdout.
InstructionError(r) ==
    /\ Exit(ERR_INSTRUCTION)
    /\ registers' = r
    /\ pc' = next_pc
    /\ steps' = steps + 1
    /\ buffered' = 0
    /\ UNCHANGED <<file, memory, cc, stdout_on_new_line, out, stdout_mode,
                   tty_raw>>

\* The process is ended by a signal: nothing is flushed, nothing restored.
Killed ==
    /\ status' = "killed"
    /\ UNCHANGED <<file, memory, registers, cc, stdout_on_new_line, out,
                   stdout_mode, buffered, tty_raw, exit_code>>

\* memory[index] with the int index outside the array is undefined: the
\* access may fault.
Fault(index) ==
    /\ ~InBounds(index)
    /\ Killed
    /\ pc' = next_pc
    /\ steps' = steps + 1

\* What a read of memory[index] can give.  Inside the array, the word
\* there.  Outside it the read is undefined: it gives whatever lies beside
\* the array, another static of the program or any other word.
ReadValues(index) ==
    IF InBounds(index)
    THEN {Mem(index)}
    ELSE {0, 65535, next_pc, cc} \cup {registers[r] : r \in 0..7}

\* memory[index] = value, then break.  Outside the array the write is
\* undefined: it may land on nothing the program reads again, or on a static
\* that lies beside the array (a register, pc, cc, stdout_on_new_line).
WriteThenContinue(index, value) ==
    IF InBounds(index)
    THEN Continue(registers, Store(memory, index, value), next_pc, cc)
    ELSE \/ Continue(registers, memory, next_pc, cc)
         \/ \E r \in 0..7 :
                Continue([registers EXCEPT ![r] = value], memory, next_pc, cc)
         \/ Continue(registers, memory, value, cc)
         \/ Continue(registers, memory, next_pc, value % 256)
         \/ /\ stdout_on_new_line' \in BOOLEAN
            /\ pc' = next_pc
            /\ steps' = steps + 1
            /\ UNCHANGED <<file, memory, registers, cc, out, stdout_mode,
                           buffered, tty_raw, status, exit_code>>

\* OP_ADD with a sum that stops at the ends of the signed range instead of
\* wrapping.
Add_saturates ==
    /\ Fetch(OP_ADD)
    /\ LET dest_reg == bits_reg_a(instruction)
           src_reg == bits_reg_b(instruction)
           second_operand ==
               IF bits(instruction, 5, 5) = 0
               THEN ToSigned(registers[bits_reg_c(instruction)])
               ELSE bits_imm_5(instruction)
           sum == ToSigned(registers[src_reg]) + second_operand
           result == IF sum > 32767 THEN 32767
                     ELSE IF sum < -32768 THEN -32768
                     ELSE sum
       IN  IF bits(instruction, 5, 5) = 0 /\ bits(instruction, 4, 3) # 0
           THEN InstructionError(registers)
           ELSE Continue([registers EXCEPT ![dest_reg] = ToWord(result)],
                         memory, next_pc, set_cc(result))

\* OP_ADD with the padding checked after the result is stored.
Add_checks_late ==
    /\ Fetch(OP_ADD)
    /\ LET dest_reg == bits_reg_a(instruction)
           src_reg == bits_reg_b(instruction)
           second_operand ==
               IF bits(instruction, 5, 5) = 0
               THEN ToSigned(registers[bits_reg_c(instruction)])
               ELSE bits_imm_5(instruction)
           result == ToSigned(ToSigned(registers[src_reg]) + second_operand)
       IN  IF bits(instruction, 5, 5) = 0 /\ bits(instruction, 4, 3) # 0
           THEN InstructionError([registers EXCEPT ![dest_reg] = ToWord(result)])
           ELSE Continue([registers EXCEPT ![dest_reg] = ToWord(result)],
                         memory, next_pc, set_cc(result))

\* case OP_ADD
Add ==
    /\ Fetch(OP_ADD)
    /\ LET dest_reg == bits_reg_a(instruction)
           src_reg == bits_reg_b(instruction)
           second_operand ==
               IF bits(instruction, 5, 5) = 0
               THEN ToSigned(registers[bits_reg_c(instruction)])
               ELSE bits_imm_5(instruction)
           result == ToSigned(ToSigned(registers[src_reg]) + second_operand)
       IN  IF bits(instruction, 5, 5) = 0 /\ bits(instruction, 4, 3) # 0
           THEN InstructionError(registers)
           ELSE Continue([registers EXCEPT ![dest_reg] = ToWord(result)],
                         memory, next_pc, set_cc(result))

\* case OP_AND
And ==
    /\ Fetch(OP_AND)
    /\ LET dest_reg == bits_reg_a(instruction)
           src_reg == bits_reg_b(instruction)
           second_operand ==
               IF bits(instruction, 5, 5) = 0
               THEN registers[bits_reg_c(instruction)]
               ELSE ToWord(bits_imm_5(instruction))
           result == BitAnd(registers[src_reg], second_operand)
       IN  IF bits(instruction, 5, 5) = 0 /\ bits(instruction, 4, 3) # 0
           THEN InstructionError(registers)
           ELSE Continue([registers EXCEPT ![dest_reg] = result],
                         memory, next_pc, set_cc(ToSigned(result)))

\* case OP_NOT
Not ==
    /\ Fetch(OP_NOT)
    /\ LET dest_reg == bits_reg_a(instruction)
           src_reg == bits_reg_b(instruction)
           result == BitNot(registers[src_reg])
       IN  IF bits(instruction, 5, 0) # 63
           THEN InstructionError(registers)
           ELSE Continue([registers EXCEPT ![dest_reg] = result],
                         memory, next_pc, set_cc(ToSigned(result)))

\* case OP_LEA
Lea ==
    /\ Fetch(OP_LEA)
    /\ LET dest_reg == bits_reg_a(instruction)
           pc_offset == bits_pc_offset_9(instruction)
       IN  Continue([registers EXCEPT ![dest_reg] = ToWord(next_pc + pc_offset)],
                    memory, next_pc, cc)

\* case OP_LD
Ld ==
    /\ Fetch(OP_LD)
    /\ LET dest_reg == bits_reg_a(instruction)
           pc_offset == bits_pc_offset_9(instruction)
           index == next_pc + pc_offset
       IN  \/ \E result \in ReadValues(index) :
                  Continue([registers EXCEPT ![dest_reg] = result],
                           memory, next_pc, set_cc(ToSigned(result)))
           \/ Fault(index)

\* case OP_LDI
Ldi ==
    /\ Fetch(OP_LDI)
    /\ LET dest_reg == bits_reg_a(instruction)
           pc_offset == bits_pc_offset_9(instruction)
           index == next_pc + pc_offset
       IN  \/ \E address \in ReadValues(index) :
                  LET result == Mem(address)
                  IN  Continue([registers EXCEPT ![dest_reg] = result],
                               memory, next_pc, set_cc(ToSigned(result)))
           \/ Fault(index)

\* case OP_LDR
Ldr ==
    /\ Fetch(OP_LDR)
    /\ LET dest_reg == bits_reg_a(instruction)
           base_reg == bits_reg_b(instruction)
           offset == bits_offset_6(instruction)
           index == registers[base_reg] + offset
       IN  \/ \E result \in ReadValues(index) :
                  Continue([registers EXCEPT ![dest_reg] = result],
                           memory, next_pc, set_cc(ToSigned(result)))
           \/ Fault(index)

\* case OP_ST
St ==
    /\ Fetch(OP_ST)
    /\ LET src_reg == bits_reg_a(instruction)
           pc_offset == bits_pc_offset_9(instruction)
           index == next_pc + pc_offset
       IN  \/ WriteThenContinue(index, registers[src_reg])
           \/ Fault(index)

\* case OP_STI
Sti ==
    /\ Fetch(OP_STI)
    /\ LET src_reg == bits_reg_a(instruction)
           pc_offset == bits_pc_offset_9(instruction)
           index == next_pc + pc_offset
       IN  \/ \E address \in ReadValues(index) :
                  Continue(registers, Store(memory, address, registers[src_reg]),
                           next_pc, cc)
           \/ Fault(index)

\* case OP_STR
Str ==
    /\ Fetch(OP_STR)
    /\ LET src_reg == bits_reg_a(instruction)
           base_reg == bits_reg_b(instruction)
           offset == bits_offset_6(instruction)
           index == registers[base_reg] + offset
       IN  \/ WriteThenContinue(index, registers[src_reg])
           \/ Fault(index)

\* OP_BR with every zero condition field skipped as a no-op.
Br_zero_condition_is_nop ==
    /\ Fetch(OP_BR)
    /\ LET condition == bits_reg_a(instruction)
           pc_offset == bits_pc_offset_9(instruction)
       IN  IF condition # 0 /\ BitAnd(cc, condition) # 0
           THEN Continue(registers, memory, ToWord(next_pc + pc_offset), cc)
           ELSE Continue(registers, memory, next_pc, cc)

\* case OP_BR
Br ==
    /\ Fetch(OP_BR)
    /\ LET condition == bits_reg_a(instruction)
           pc_offset == bits_pc_offset_9(instruction)
       IN  IF instruction = 0
           THEN \* Skip NOP case
                Continue(registers, memory, next_pc, cc)
           ELSE IF condition = 0
           THEN InstructionError(registers)
           ELSE IF BitAnd(cc, condition) # 0
           THEN Continue(registers, memory, ToWord(next_pc + pc_offset), cc)
           ELSE Continue(registers, memory, next_pc, cc)

\* case OP_JMP_RET
Jmp ==
    /\ Fetch(OP_JMP_RET)
    /\ LET base_reg == bits_reg_b(instruction)
       IN  IF bits(instruction, 11, 9) # 0 \/ bits(instruction, 5, 0) # 0
           THEN InstructionError(registers)
           ELSE Continue(registers, memory, registers[base_reg], cc)

\* OP_JSR_JSRR with R7 linked after the jump instead of before it.
Jsr_links_after_jump ==
    /\ Fetch(OP_JSR_JSRR)
    /\ LET pc_offset == bits_pc_offset_11(instruction)
           base_reg == bits_reg_b(instruction)
           target == IF bits(instruction, 11, 11) # 0
                     THEN ToWord(next_pc + pc_offset)
                     ELSE registers[base_reg]
       IN  IF bits(instruction, 11, 11) = 0
              /\ (bits(instruction, 11, 9) # 0 \/ bits(instruction, 5, 0) # 0)
           THEN InstructionError(registers)
           ELSE Continue([registers EXCEPT ![7] = target], memory, target, cc)

\* case OP_JSR_JSRR
Jsr ==
    /\ Fetch(OP_JSR_JSRR)
    /\ LET linked == [registers EXCEPT ![7] = next_pc]
           pc_offset == bits_pc_offset_11(instruction)
           base_reg == bits_reg_b(instruction)
       IN  IF bits(instruction, 11, 11) # 0
           THEN Continue(linked, memory, ToWord(next_pc + pc_offset), cc)
           ELSE IF bits(instruction, 11, 9) # 0 \/ bits(instruction, 5, 0) # 0
           THEN InstructionError(linked)
           ELSE Continue(linked, memory, linked[base_reg], cc)

\* case OP_RTI
Rti ==
    /\ Fetch(OP_RTI)
    /\ InstructionError(registers)

\* case OP_RESERVED
Reserved ==
    /\ Fetch(OP_RESERVED)
    /\ InstructionError(registers)

\* ---------------------------------------------------------------- traps

\* const enum TrapVect trap_vect = (enum TrapVect)bits(instruction, 8, 0)
trap_vect == bits(instruction, 8, 0)

\* case OP_TRAP with valid padding, dispatched to this vector's case
Trap(vect) ==
    /\ Fetch(OP_TRAP)
    /\ bits(instruction, 11, 8) = 0
    /\ trap_vect = vect

\* The trap has written to standard output, calls fflush(stdout) and ends
\* at its break.
ContinueAfterOutput(st) ==
    /\ WriteStdout(st, TRUE)
    /\ pc' = next_pc
    /\ steps' = steps + 1
    /\ UNCHANGED <<file, memory, registers, cc, tty_raw, status, exit_code>>

\* OP_TRAP with the default case of the vector switch left out: an unknown
\* vector does nothing.
TrapInvalid_ignores_unknown ==
    /\ Fetch(OP_TRAP)
    /\ \/ bits(instruction, 11, 8) # 0
       \/ trap_vect \notin {TRAP_GETC, TRAP_OUT, TRAP_PUTS, TRAP_IN,
                            TRAP_PUTSP, TRAP_HALT}
    /\ IF bits(instruction, 11, 8) # 0
       THEN InstructionError(registers)
       ELSE Continue(registers, memory, next_pc, cc)

\* case OP_TRAP: invalid padding, or the default case of the vector switch
TrapInvalid ==
    /\ Fetch(OP_TRAP)
    /\ \/ bits(instruction, 11, 8) # 0
       \/ trap_vect \notin {TRAP_GETC, TRAP_OUT, TRAP_PUTS, TRAP_IN,
                            TRAP_PUTSP, TRAP_HALT}
    /\ InstructionError(registers)

\* case TRAP_GETC, up to the call of getchar(), where the process blocks
TrapGetc ==
    /\ Trap(TRAP_GETC)
    /\ tty_raw' = TRUE
    /\ status' = "getc"
    /\ pc' = next_pc
    /\ steps' = steps + 1
    /\ buffered' \in AfterRead(stdout_mode, buffered)
    /\ UNCHANGED <<file, memory, registers, cc, stdout_on_new_line, out,
                   stdout_mode, exit_code>>

\* case TRAP_GETC, from the return of getchar()
GetcRead ==
    /\ status = "getc"
    /\ \E input \in InputChars, char_signed \in BOOLEAN :
           registers' = [registers EXCEPT ![0] = CharToWord(input, char_signed)]
    /\ tty_raw' = FALSE
    /\ status' = "running"
    /\ UNCHANGED <<file, memory, pc, cc, stdout_on_new_line, out, stdout_mode,
                   buffered, exit_code, steps>>

\* case TRAP_IN, up to the call of getchar(), where the process blocks
TrapIn ==
    /\ Trap(TRAP_IN)
    /\ LET st == print_on_new_line(console)
           prompted == [out |-> st.out \o Prompt, nl |-> st.nl]
       IN  /\ out' = prompted.out
           /\ stdout_on_new_line' = prompted.nl
           /\ \E mode \in ModesAfter(Written(prompted)) :
                  /\ stdout_mode' = mode
                  /\ buffered' \in
                         AfterRead(mode, Pending(mode, buffered, Written(prompted)))
    /\ tty_raw' = TRUE
    /\ status' = "in"
    /\ pc' = next_pc
    /\ steps' = steps + 1
    /\ UNCHANGED <<file, memory, registers, cc, exit_code>>

\* case TRAP_IN, from the return of getchar(): the trap ends at its break
\* without a call of fflush
InRead ==
    /\ status = "in"
    /\ \E input \in InputChars, char_signed \in BOOLEAN :
           LET st == print_on_new_line(print_char(console, input))
           IN  /\ WriteStdout(st, FALSE)
               /\ registers' =
                      [registers EXCEPT ![0] = CharToWord(input, char_signed)]
    /\ tty_raw' = FALSE
    /\ status' = "running"
    /\ UNCHANGED <<file, memory, pc, cc, exit_code, steps>>

\* A signal (the terminal's interrupt key) ends the process while it is
\* blocked in getchar().
Interrupt ==
    /\ status \in {"getc", "in"}
    /\ Killed
    /\ UNCHANGED <<pc, steps>>

\* case TRAP_OUT
TrapOut ==
    /\ Trap(TRAP_OUT)
    /\ ContinueAfterOutput(print_char(console, registers[0]))

\* The loop of TRAP_PUTS with an index that does not wrap: the string ends
\* at the top of memory.
RECURSIVE PutsFrom_stops_at_top(_, _)
PutsFrom_stops_at_top(i, st) ==
    LET ch == Mem(i) % 256
    IN  IF i >= MEMORY_SIZE \/ ch = 0 THEN st
        ELSE PutsFrom_stops_at_top(i + 1, print_char(st, ch))

\* The loop of TRAP_PUTS from address i on.
RECURSIVE PutsFrom(_, _)
PutsFrom(i, st) ==
    LET ch == Mem(i) % 256
    IN  IF ch = 0 THEN st ELSE PutsFrom(ToWord(i + 1), print_char(st, ch))

\* case TRAP_PUTS
TrapPuts ==
    /\ Trap(TRAP_PUTS)
    /\ ContinueAfterOutput(PutsFrom(registers[0], console))

\* The loop of TRAP_PUTSP from address i on.
RECURSIVE PutspFrom(_, _)
PutspFrom(i, st) ==
    LET word == Mem(i)
        chars0 == (word \div 256) % 256
        chars1 == word % 256
    IN  IF chars0 = 0 THEN st
        ELSE IF chars1 = 0 THEN print_char(st, chars0)
        ELSE PutspFrom(ToWord(i + 1), print_char(print_char(st, chars0), chars1))

\* case TRAP_PUTSP
TrapPutsp ==
    /\ Trap(TRAP_PUTSP)
    /\ ContinueAfterOutput(PutspFrom(registers[0], console))

\* TRAP_HALT sent to the default case of the vector switch.
TrapHalt_as_unknown_vector ==
    /\ Trap(TRAP_HALT)
    /\ InstructionError(registers)

\* case TRAP_HALT, and the halt label
TrapHalt ==
    /\ Trap(TRAP_HALT)
    /\ WriteStdout(print_on_new_line(console), TRUE)
    /\ Exit(ERR_OK)
    /\ pc' = next_pc
    /\ steps' = steps + 1
    /\ UNCHANGED <<file, memory, registers, cc, tty_raw>>

\* -------------------------------------------------------- specification

Next ==
    \/ Load
    \/ Add
    \/ And
    \/ Not
    \/ Lea
    \/ Ld
    \/ Ldi
    \/ Ldr
    \/ St
    \/ Sti
    \/ Str
    \/ Br
    \/ Jmp
    \/ Jsr
    \/ Rti
    \/ Reserved
    \/ TrapInvalid
    \/ TrapGetc
    \/ GetcRead
    \/ TrapIn
    \/ InRead
    \/ Interrupt
    \/ TrapOut
    \/ TrapPuts
    \/ TrapPutsp
    \/ TrapHalt

Spec == Init /\ [][Next]_vars

\* The same program run on each 16-bit word as the one word of an image, so
\* that the decoder is applied to every word.
DecodeInit == InitWith(AllWordFiles)

DecodeSpec == DecodeInit /\ [][Next]_vars

\* ------------------------------------------------ vocabulary of the claims

\* The loop is at its top: the next step fetches the word at pc.
AtFetch == status = "running"

\* The run has ended with an instruction error.
InstructionErrorExit == status = "exited" /\ exit_code = ERR_INSTRUCTION

\* The word the last fetch read, when the instruction did not move pc.
last_instruction == Mem(ToWord(pc - 1))

\* The w-bit field v read as two's complement.
TwosComplement(v, w) == IF v >= Pow2(w - 1) THEN v - Pow2(w) ELSE v

\* The 9-bit and 6-bit offsets of an instruction, and the addresses they
\* give, taken modulo 65536.
PcRelative == ToWord(pc + 1 + TwosComplement(instruction % 512, 9))

BaseRelative ==
    ToWord(registers[(instruction \div 64) % 8] + TwosComplement(instruction % 64, 6))

\* Bits 11-9 of the fetched instruction: DR, SR or the condition field.
field_a == (instruction \div 512) % 8

\* ---------------------------------------------------------------- C1

\* C1 (as claimed): LD, LDI, LDR, ST, STI and STR access the memory cell at
\* the effective address (PC + sext9) or (BaseR + sext6) taken modulo 65536,
\* so a sum of 65536 accesses address 0, a negative sum the matching high
\* address, and the access never leaves memory (the step never faults and
\* changes nothing but the addressed cell or the destination register).
C1_AddressWraps ==
    [][ AtFetch =>
          /\ opcode = OP_LD =>
                /\ status' = "running"
                /\ registers' = [registers EXCEPT ![field_a] = Mem(PcRelative)]
          /\ opcode = OP_LDI =>
                /\ status' = "running"
                /\ registers' = [registers EXCEPT ![field_a] = Mem(Mem(PcRelative))]
          /\ opcode = OP_LDR =>
                /\ status' = "running"
                /\ registers' = [registers EXCEPT ![field_a] = Mem(BaseRelative)]
          /\ opcode = OP_ST =>
                /\ status' = "running"
                /\ memory' = Store(memory, PcRelative, registers[field_a])
          /\ opcode = OP_STI =>
                /\ status' = "running"
                /\ memory' = Store(memory, Mem(PcRelative), registers[field_a])
          /\ opcode = OP_STR =>
                /\ status' = "running"
                /\ memory' = Store(memory, BaseRelative, registers[field_a])
      ]_vars

\* ---------------------------------------------------------------- C2

\* C2 (as claimed): the image LEA R0,label; PUTS; HALT with 'h','i',0 at
\* label ends with exit code 0 and the complete output "hi", no newline
\* after it.
C2_NoTrailingNewline ==
    (file = HiImage /\ status = "exited") => (out = <<104, 105>> /\ exit_code = ERR_OK)

\* C2 (amended): a run that ends in HALT ends with exit code 0 and adds one
\* newline to the output when the flag stdout_on_new_line is false at the
\* HALT, and nothing when it is true; the "hi" image's complete output is
\* "hi" followed by a newline.
C2_HaltEndsTheLine ==
    [][ (AtFetch /\ status' = "exited" /\ exit_code' = ERR_OK) =>
          /\ out' = IF stdout_on_new_line THEN out ELSE Append(out, 10)
          /\ file = HiImage => out' = <<104, 105, 10>>
      ]_vars

\* The "hi" image has run to its HALT.
C2_HiHalted == file = HiImage /\ status = "exited" /\ exit_code = ERR_OK /\ steps = 3

\* ---------------------------------------------------------------- C3

\* C3 (as claimed): every BR whose condition field (bits 11-9) is zero,
\* whatever its offset, ends the run with an instruction error (exit code 3).
C3_ZeroConditionAlwaysFails ==
    [][ (AtFetch /\ opcode = OP_BR /\ field_a = 0) =>
          (status' = "exited" /\ exit_code' = ERR_INSTRUCTION)
      ]_vars

\* C3 (amended): a BR whose condition field is zero ends the run with an
\* instruction error (exit code 3) unless the whole word is 0x0000; the word
\* 0x0000 is a no-op that only advances PC.
C3_ZeroConditionFailsButNop ==
    [][ (AtFetch /\ opcode = OP_BR /\ field_a = 0) =>
          IF instruction = 0
          THEN /\ status' = "running"
               /\ pc' = ToWord(pc + 1)
               /\ UNCHANGED <<memory, registers, cc, out, stdout_on_new_line>>
          ELSE status' = "exited" /\ exit_code' = ERR_INSTRUCTION
      ]_vars

\* A BR with no condition and offset 1 has ended the run.
C3_ZeroConditionFailed == InstructionErrorExit /\ last_instruction = 1

\* ---------------------------------------------------------------- C4

\* The bytes C4 says PUTSP writes from address i on: of each word the low
\* byte, then the high byte, up to the first zero byte.
RECURSIVE LowByteFirst(_)
LowByteFirst(i) ==
    LET low == Mem(i) % 256
        high == Mem(i) \div 256
    IN  IF low = 0 THEN <<>>
        ELSE IF high = 0 THEN <<low>>
        ELSE <<low, high>> \o LowByteFirst(ToWord(i + 1))

\* C4 (as claimed): PUTSP writes, from the address in R0 on, the low byte of
\* each word and then its high byte, and stops at the first zero byte.
C4_PutspLowByteFirst ==
    [][ (AtFetch /\ opcode = OP_TRAP /\ instruction % 4096 = TRAP_PUTSP) =>
          out' = out \o LowByteFirst(registers[0])
      ]_vars

\* ---------------------------------------------------------------- C5

\* C5 (as claimed): once the registers are reset (PC = origin, CC = ZERO),
\* cc is always exactly one of NEGATIVE (4), ZERO (2), POSITIVE (1).
C5_ExactlyOneFlag ==
    (status # "loading" /\ exit_code # ERR_FILE) => cc \in {4, 2, 1}

\* ---------------------------------------------------------------- C6

\* The flag for a Word read as two's complement: NEGATIVE when bit 15 is set,
\* ZERO for 0, POSITIVE otherwise.
SignFlag(w) == IF (w \div 32768) % 2 = 1 THEN 4 ELSE IF w = 0 THEN 2 ELSE 1

\* C6: after each ADD, AND, NOT, LD, LDI or LDR that completes without
\* error, CC is the sign of the value now in the destination register:
\* NEGATIVE if bit 15 is set, ZERO if it is 0, POSITIVE otherwise.
C6_CcIsSignOfDestination ==
    [][ ( /\ AtFetch
          /\ opcode \in {OP_ADD, OP_AND, OP_NOT, OP_LD, OP_LDI, OP_LDR}
          /\ status' = "running" ) =>
          cc' = SignFlag(registers'[field_a])
      ]_vars

\* ADD R3,R1,#1 has run with R1 = 0x7fff: the sum wrapped to 0x8000 and CC
\* is NEGATIVE.
C6_OverflowIsNegative ==
    /\ file = AluImage(Enc(OP_ADD, 3, 1, 32 + 1), 32767, 0)
    /\ steps = 3
    /\ status = "running"
    /\ registers[3] = 32768
    /\ cc = 4

\* ---------------------------------------------------------------- C7

\* C7 (as claimed): JSRR with any base register, R7 included, sets PC to the
\* value the base register held before the instruction and R7 to the address
\* of the instruction after the JSRR.
C7_JsrrJumpsToOldBase ==
    [][ ( /\ AtFetch
          /\ opcode = OP_JSR_JSRR
          /\ (instruction \div 2048) % 2 = 0
          /\ status' = "running" ) =>
          /\ pc' = registers[(instruction \div 64) % 8]
          /\ registers'[7] = ToWord(pc + 1)
      ]_vars

\* ---------------------------------------------------------------- C8

\* C8: a JSR fetched at address a sets R7 = (a + 1) mod 65536 and
\* PC = (a + 1 + sext11) mod 65536; a RET (JMP R7) sets PC to the value R7
\* holds, so a RET run while R7 still holds (a + 1) mod 65536 returns to the
\* instruction after the JSR.
C8_JsrLinksAndRetReturns ==
    [][ AtFetch =>
          /\ (opcode = OP_JSR_JSRR /\ (instruction \div 2048) % 2 = 1) =>
                /\ status' = "running"
                /\ registers'[7] = (pc + 1) % 65536
                /\ pc' = (pc + 1 + TwosComplement(instruction % 2048, 11)) % 65536
          /\ instruction = Enc(OP_JMP_RET, 0, 7, 0) =>
                /\ status' = "running"
                /\ pc' = registers[7]
                /\ registers' = registers
      ]_vars

\* JSR at the origin, then the RET of the subroutine: PC is back at the
\* instruction after the JSR.
C8_Returned ==
    /\ file = JsrRetImage
    /\ steps = 2
    /\ status = "running"
    /\ registers[7] = UsualOrigin + 1
    /\ pc = UsualOrigin + 1

\* ---------------------------------------------------------------- C9

\* C9: an ADD or AND in register mode (bit 5 = 0) with bits 4-3 not both
\* zero ends the run with an instruction error (exit code 3), and every
\* register, CC and every memory word are as they were before the fetch.
C9_BadPaddingChangesNothing ==
    [][ ( /\ AtFetch
          /\ opcode \in {OP_ADD, OP_AND}
          /\ (instruction \div 32) % 2 = 0
          /\ (instruction \div 8) % 4 # 0 ) =>
          /\ status' = "exited"
          /\ exit_code' = ERR_INSTRUCTION
          /\ registers' = registers
          /\ cc' = cc
          /\ memory' = memory
      ]_vars

\* ADD R2,R1,R1 with bit 3 set has ended the run, after an ADD that made R1
\* nonzero: R2 is still 0.
C9_BadPaddingFailed ==
    /\ InstructionErrorExit
    /\ last_instruction = Enc(OP_ADD, 2, 1, 8 + 1)
    /\ registers[1] = 1
    /\ registers[2] = 0

\* --------------------------------------------------------------- C10

\* The instruction words C10 lists: RTI, the reserved opcode, NOT whose low
\* 6 bits are not all 1, JMP or JSRR (opcode 4 with bit 11 clear) with a bit
\* of 11-9 or 5-0 set, TRAP with a bit of 11-8 set, TRAP with a vector
\* outside 0x20..0x25.
Malformed(w) ==
    LET op == w \div 4096
    IN  \/ op = OP_RTI
        \/ op = OP_RESERVED
        \/ op = OP_NOT /\ w % 64 # 63
        \/ op = OP_JMP_RET /\ ((w \div 512) % 8 # 0 \/ w % 64 # 0)
        \/ op = OP_JSR_JSRR /\ (w \div 2048) % 2 = 0
             /\ ((w \div 512) % 8 # 0 \/ w % 64 # 0)
        \/ op = OP_TRAP /\ (w \div 256) % 16 # 0
        \/ op = OP_TRAP /\ (w % 256 < 32 \/ w % 256 > 37)

\* C10: each of those instructions ends the run with an instruction error
\* (exit code 3), and once the run has ended no instruction is fetched: no
\* step follows.
C10_MalformedEndsTheRun ==
    [][ /\ status # "exited"
        /\ (AtFetch /\ Malformed(instruction)) =>
              (status' = "exited" /\ exit_code' = ERR_INSTRUCTION)
      ]_vars

\* TRAP x99 has ended the run.
C10_UnknownVectorFailed ==
    /\ InstructionErrorExit
    /\ last_instruction = Enc(OP_TRAP, 0, 2, 25)
    /\ steps = 2

\* ---------------------------------------------------------------- C11

\* C11: the step that fetches TRAP x25 (HALT) ends the run with exit code 0,
\* whatever the machine state; no step follows the end of the run, so no
\* instruction is fetched after it; a run reaches exit code 0 only by that
\* step; and the image of origin 0x3000 and the single word 0xF025 ends
\* after one fetch with exit code 0 and nothing written to standard output.
C11_HaltEndsWithZero ==
    [][ /\ (AtFetch /\ instruction = Enc(OP_TRAP, 0, 0, TRAP_HALT)) =>
              (status' = "exited" /\ exit_code' = ERR_OK /\ steps' = steps + 1)
        /\ status # "exited"
        /\ (exit_code' = ERR_OK /\ exit_code # ERR_OK) =>
              (AtFetch /\ instruction = Enc(OP_TRAP, 0, 0, TRAP_HALT))
        /\ (file = HaltImage /\ status' = "exited") =>
              (exit_code' = ERR_OK /\ out' = <<>> /\ buffered' = 0 /\ steps' = 1)
      ]_vars

\* The image that is HALT alone has ended with exit code 0 and no output.
C11_HaltAloneExited ==
    /\ file = HaltImage
    /\ status = "exited"
    /\ exit_code = ERR_OK
    /\ out = <<>>
    /\ steps = 1

\* ---------------------------------------------------------------- C12

\* The complete payload words of the image file, after its origin word.
PayloadWords == IF FileItems < 1 THEN 0 ELSE FileItems - 1

\* The k-th word of the image file as the file format gives it, high byte
\* first, words counted from 0 (word 0 is the origin).
FileWord(k) == file[2 * k + 1] * 256 + file[2 * k + 2]

\* C12 (as claimed): the loader ends the run with the file error (exit code
\* 2), no instruction executed, exactly when the image has no origin word,
\* no payload word, or more payload words than 65536 - origin; an image of 1
\* to 65536 - origin payload words, both bounds included, is loaded at
\* origin (each payload word at its address, pc at origin) and executed.
C12_LoaderRejectsExactly ==
    [][ status = "loading" =>
          IF \/ FileItems < 1
             \/ PayloadWords = 0
             \/ PayloadWords > 65536 - FileWord(0)
          THEN status' = "exited" /\ exit_code' = ERR_FILE /\ steps' = 0
          ELSE /\ status' = "running"
               /\ pc' = FileWord(0)
               /\ \A k \in 1..PayloadWords :
                      LET a == FileWord(0) + k - 1
                          word == IF a \in DOMAIN memory' THEN memory'[a] ELSE 0
                      IN  word = FileWord(k)
      ]_vars

\* ---------------------------------------------------------------- C13

\* C13 (as claimed): the terminal is in raw mode only while a GETC or IN
\* read is blocked in getchar(), and however the process has ended (by a
\* return from main or by a signal, a read interrupted while blocked
\* included) the terminal is back in its non-raw mode.
C13_RawOnlyWhileBlocked ==
    /\ tty_raw => status \in {"getc", "in"}
    /\ status \in {"exited", "killed"} => ~tty_raw

\* ---------------------------------------------------------------- C14

\* C14 (as claimed): each trap that writes to standard output (OUT, PUTS,
\* PUTSP and IN) flushes it before the next instruction is fetched, so
\* whenever the loop is about to fetch an instruction, no character written
\* so far is still held in the buffer of standard output.
C14_NothingBufferedAtFetch == AtFetch => buffered = 0

\* ---------------------------------------------------------------- C15

\* Output that ends a line: nothing written yet, or a newline written last.
LineStart(o) == o = <<>> \/ o[Len(o)] = 10

\* C15 (as claimed): whenever the loop is about to fetch an instruction,
\* stdout_on_new_line is true exactly when nothing has been written or the
\* last character written is a newline; and each prompt "Input> " that IN
\* writes starts a line: what was written before it is nothing, or ends in
\* a newline.
C15_PromptStartsALine ==
    /\ [](AtFetch => (stdout_on_new_line <=> LineStart(out)))
    /\ [][ (AtFetch /\ status' = "in") =>
             /\ SubSeq(out', Len(out') - Len(Prompt) + 1, Len(out')) = Prompt
             /\ LineStart(SubSeq(out', 1, Len(out') - Len(Prompt)))
         ]_vars

\* ---------------------------------------------------------------- C16

\* C16 (as claimed): once the image is loaded, cc changes only in the step
\* of an ADD, AND, NOT, LD, LDI or LDR; the step of every LEA, ST, STI, STR,
\* BR, JMP/RET, JSR/JSRR and TRAP (the reads of GETC and IN included) leaves
\* cc as it was; and LEA writes (PC + sext9) mod 65536, PC already
\* incremented, into DR and changes no other register.
C16_OnlySixChangeCc ==
    [][ /\ (status # "loading" /\ cc' # cc) =>
              /\ AtFetch
              /\ opcode \in {OP_ADD, OP_AND, OP_NOT, OP_LD, OP_LDI, OP_LDR}
        /\ (AtFetch /\ opcode = OP_LEA) =>
              /\ registers' = [registers EXCEPT ![field_a] = PcRelative]
              /\ cc' = cc
              /\ status' = "running"
      ]_vars

\* ---------------------------------------------------------------- C17

\* The addresses whose word a step changes.
ChangedWords ==
    {a \in (DOMAIN memory) \cup (DOMAIN memory') :
        Mem(a) # (IF a \in DOMAIN memory' THEN memory'[a] ELSE 0)}

\* C17 (as claimed): once the loader has finished, memory changes only in
\* the step of a ST, STI or STR, and that step changes no word but the one
\* at its effective address ((PC + sext9) mod 65536 for ST, the word read
\* there for STI, (BaseR + sext6) mod 65536 for STR); every other step (all
\* traps and all erroring instructions included) leaves memory unchanged.
C17_OnlyStoresChangeMemory ==
    [][ status # "loading" =>
          /\ memory' # memory =>
                (AtFetch /\ opcode \in {OP_ST, OP_STI, OP_STR})
          /\ (AtFetch /\ opcode = OP_ST) => ChangedWords \subseteq {PcRelative}
          /\ (AtFetch /\ opcode = OP_STI) => ChangedWords \subseteq {Mem(PcRelative)}
          /\ (AtFetch /\ opcode = OP_STR) => ChangedWords \subseteq {BaseRelative}
      ]_vars

\* ---------------------------------------------------------------- C18

\* C18: an ADD that passes its padding check writes (SR1 + operand) mod
\* 65536 into DR and changes no other register, where the operand is SR2
\* when bit 5 is 0 and the 5-bit immediate read as two's complement (-16 to
\* 15) when bit 5 is 1; a sum outside the 16-bit range wraps, and the run
\* goes on with the next instruction.
C18_AddWraps ==
    [][ ( /\ AtFetch
          /\ opcode = OP_ADD
          /\ ((instruction \div 32) % 2 = 1 \/ (instruction \div 8) % 4 = 0) ) =>
            LET SR1 == registers[(instruction \div 64) % 8]
                operand == IF (instruction \div 32) % 2 = 0
                           THEN registers[instruction % 8]
                           ELSE TwosComplement(instruction % 32, 5)
            IN  /\ registers' = [registers EXCEPT ![field_a] = (SR1 + operand) % 65536]
                /\ status' = "running"
                /\ pc' = next_pc
      ]_vars

\* ADD R3,R1,R2 with R1 = R2 = 0x8000 has left 0 in R3, and the run goes on.
C18_SumWrapped ==
    /\ status = "running"
    /\ last_instruction = Enc(OP_ADD, 3, 1, 2)
    /\ registers[1] = 32768
    /\ registers[2] = 32768
    /\ registers[3] = 0
    /\ steps = 3

\* ---------------------------------------------------------------- C19

\* The low byte of the word k addresses after R0, addresses wrapping from
\* 0xFFFF to 0.
StringByte(k) == Mem((registers[0] + k) % 65536) % 256

\* How many words from R0 on come before the first one whose low byte is 0.
StringLength ==
    CHOOSE n \in 0..65535 :
        StringByte(n) = 0 /\ \A k \in 0..(n - 1) : StringByte(k) # 0

\* C19: PUTS appends to the output the low byte of each word from the
\* address in R0 on, in address order, the address after 0xFFFF being 0, up
\* to but not including the first word whose low byte is zero, whatever the
\* high bytes are; it changes no register, no memory word and not cc, and
\* the run goes on.
C19_PutsWritesLowBytes ==
    [][ (AtFetch /\ instruction = Enc(OP_TRAP, 0, 0, TRAP_PUTS)) =>
          /\ out' = out \o [i \in 1..StringLength |-> StringByte(i - 1)]
          /\ UNCHANGED <<registers, memory, cc>>
          /\ status' = "running"
      ]_vars

\* PUTS has written the string that starts at 0xFFFF and runs on over
\* addresses 0 and 1: the 'A' under a nonzero high byte, then the low bytes
\* of the first two instructions; the word at address 2 (high byte 0x72, low
\* byte 0) ended it.
C19_WrappedStringWritten ==
    /\ file = PutsWrapImage
    /\ status = "running"
    /\ steps = 4
    /\ registers[0] = 65535
    /\ Mem(65535) = 256 + 65
    /\ out = <<65, 254, 2>>

\* ---------------------------------------------------------------- C20

\* The fields the decoder reads, as <<highest bit, lowest bit>>: the opcode,
\* the three register fields, and the offsets of 5, 6, 9 and 11 bits.
DecoderFields ==
    {<<15, 12>>, <<11, 9>>, <<8, 6>>, <<2, 0>>, <<4, 0>>, <<5, 0>>, <<8, 0>>, <<10, 0>>}

\* The fields the decoder sign-extends.
SignedFields == {<<4, 0>>, <<5, 0>>, <<8, 0>>, <<10, 0>>}

\* C20: for the word about to be fetched (under DecodeSpec, every 16-bit
\* word) and every field <<hi, lo>> of the decoder, bits(word, hi, lo) is
\* (word >> lo) mod 2^(hi - lo + 1); and for every field the decoder
\* sign-extends, of width w and value v, sign_extend(v, w) is the one integer
\* r with -2^(w-1) <= r < 2^(w-1) and r congruent to v modulo 2^w, which is
\* also what the accessor of the field (bits_imm_5, bits_offset_6,
\* bits_pc_offset_9, bits_pc_offset_11) returns.
C20_DecoderFieldsAreExact ==
    AtFetch =>
        /\ \A f \in DecoderFields :
               bits(instruction, f[1], f[2]) =
                   (instruction \div (2 ^ f[2])) % (2 ^ (f[1] - f[2] + 1))
        /\ \A f \in SignedFields :
               LET w == f[1] - f[2] + 1
                   v == (instruction \div (2 ^ f[2])) % (2 ^ w)
                   r == sign_extend(v, w)
               IN  /\ r >= -(2 ^ (w - 1))
                   /\ r < 2 ^ (w - 1)
                   /\ (r - v) % (2 ^ w) = 0
                   /\ bits_sext(instruction, f[1], f[2]) = r
        /\ bits_reg_a(instruction) = (instruction \div 512) % 8
        /\ bits_reg_b(instruction) = (instruction \div 64) % 8
        /\ bits_reg_c(instruction) = instruction % 8
        /\ bits_imm_5(instruction) = sign_extend(instruction % 32, 5)
        /\ bits_offset_6(instruction) = sign_extend(instruction % 64, 6)
        /\ bits_pc_offset_9(instruction) = sign_extend(instruction % 512, 9)
        /\ bits_pc_offset_11(instruction) = sign_extend(instruction % 2048, 11)

\* The word 0xF7E1 is about to be fetched: opcode 15, register fields 3, 7
\* and 1, the 5-bit field 1 (positive), the 6-bit field -31, the 9-bit field
\* -31 and the 11-bit field -31.
C20_MixedSignsDecoded ==
    /\ AtFetch
    /\ instruction = 63457
    /\ bits(instruction, 15, 12) = 15
    /\ bits_reg_a(instruction) = 3
    /\ bits_reg_b(instruction) = 7
    /\ bits_reg_c(instruction) = 1
    /\ bits_imm_5(instruction) = 1
    /\ bits_offset_6(instruction) = -31
    /\ bits_pc_offset_9(instruction) = -31
    /\ bits_pc_offset_11(instruction) = -31

====
